---- MODULE Spec2Model ----
(***************************************************************************)
(* Model of the Veo 3 job orchestrator of veoforge                         *)
(* (src/api/services/veo3Service.js): the dispatch loop of                 *)
(* generateVideosWithVeo3 in its parallel and sequential modes, the        *)
(* process-wide registry this.videoStatuses, the one-shot timers of        *)
(* simulateProgress / simulateSequentialProgress, the busy-poll of         *)
(* waitForVideoCompletion and the status query getVideoStatus with its     *)
(* upstream poll.  Time is the value of Date.now() in milliseconds; it     *)
(* advances in steps of the busy-poll interval, which divides every timer  *)
(* delay of the program.                                                   *)
(* downloadVideo is modelled from its call to its return, and splitScript  *)
(* (src/api/services/openaiService.js) as its three passes over a script   *)
(* given by the word counts of its sentences.                              *)
(***************************************************************************)
EXTENDS Integers, Sequences, FiniteSets, TLC

VARIABLES now, videoStatuses, timers, disp, calls, observed, polls, requests, ret,
          download, split, other

vars == <<now, videoStatuses, timers, disp, calls, observed, polls, requests, ret,
          download, split, other>>

(* ----------------------------- bounds ---------------------------------- *)
MaxSegs == 2
MaxTicks == 13
MaxPolls == 1
MaxLongTicks == 230
MaxSentences == 5
MaxCalls == 3
MaxRequests == 2

(* ------------------------ program constants ---------------------------- *)
CheckInterval == 1000
BaseTime == 120
ProgressCap == 95
ComplexityThreshold == 100
Mp4HeaderLength == 40
PlaceholderBodyLength == 1024
minWordsFor6Seconds == 15
maxWordsFor8Seconds == 22
MergeLimit == 30

(* ------------------------- values of the program ----------------------- *)
Undefined == "undefined"
Null == "null"
NoProgress == -1

Processing == "processing"
Completed == "completed"
ErrorStatus == "error"
NotFound == "not_found"

NoVideoError == "No video generated in response"
VideoNotFoundError == "Video not found"
PollErrors == {"fetch failed"}

QuotaMessage == <<"API quota exceeded. Please check your Google AI Studio usage limits.">>
Pattern429 == <<"4", "2", "9">>
PatternExhausted == <<"RESOURCE_EXHAUSTED">>

(* messages a failed submission can carry; a message is its sequence of    *)
(* characters, with the marker RESOURCE_EXHAUSTED and the fixed texts of   *)
(* callVeo3API written as one symbol each                                  *)
ErrorMessages ==
  { <<"No Veo 3.1 API client available">>,
    <<"Google AI Studio API error: ", "4", "2", "9", " - ", "quota">>,
    <<"Google AI Studio API error: ", "4", "0", "3", " - ", "RESOURCE_EXHAUSTED">>,
    <<"Google AI Studio API error: ", "4", "0", "2", " - ", "9">> }

(* operation names the upstream service hands out (result.name), fresh for *)
(* every accepted submission                                               *)
OperationNames == [k \in 1..(2 * MaxSegs) |-> "operations/" \o ToString(k)]

(* property names every plain object inherits from Object.prototype, and   *)
(* an id no object has                                                     *)
PrototypeKeys == {"constructor"}
UnknownIds == {"operations/0"}

Qualities == {"standard", "high"}
(* the quality a caller that passes none gets: line 202 *)
DefaultQuality == "standard"
DialogueLengths == {ComplexityThreshold, ComplexityThreshold + 1}

(* String.prototype.includes on a message *)
Includes(msg, pat) ==
  \E k \in 0..(Len(msg) - Len(pat)) : SubSeq(msg, k + 1, k + Len(pat)) = pat

(* Math.round of the non-negative rational a / b *)
RoundDiv(a, b) == (2 * a + b) \div (2 * b)

Min(a, b) == IF a <= b THEN a ELSE b

(* an estimate that counts a dialogue of exactly 100 characters as complex *)
estimateVideoGenerationTime_AtThreshold(segment, quality) ==
  LET qualityMultiplier10 == IF quality = "high" THEN 15 ELSE 10
      dialogueLength == segment.dialogueLength
      complexityMultiplier10 == IF dialogueLength >= ComplexityThreshold THEN 12 ELSE 10
  IN  RoundDiv(BaseTime * qualityMultiplier10 * complexityMultiplier10, 100)

(* lines 653-661; a segment is its dialogue's length, 0 when it has none   *)
estimateVideoGenerationTime(segment, quality) ==
  LET qualityMultiplier10 == IF quality = "high" THEN 15 ELSE 10
      dialogueLength == segment.dialogueLength
      complexityMultiplier10 == IF dialogueLength > ComplexityThreshold THEN 12 ELSE 10
  IN  RoundDiv(BaseTime * qualityMultiplier10 * complexityMultiplier10, 100)

(* the timeline tables of simulateProgress and simulateSequentialProgress *)
ParallelSteps ==
  << [progress |-> 10,  status |-> "Initializing video generation...", delay |-> 5000],
     [progress |-> 25,  status |-> "Processing character details...",  delay |-> 10000],
     [progress |-> 50,  status |-> "Generating scene elements...",     delay |-> 15000],
     [progress |-> 75,  status |-> "Rendering video frames...",        delay |-> 20000],
     [progress |-> 90,  status |-> "Finalizing video...",              delay |-> 25000],
     [progress |-> 100, status |-> "completed",                        delay |-> 30000] >>

SequentialSteps ==
  << [progress |-> 10,  status |-> "Initializing video k/n...",                     delay |-> 2000],
     [progress |-> 25,  status |-> "Processing character continuity for video k...", delay |-> 4000],
     [progress |-> 50,  status |-> "Generating scene elements for video k...",      delay |-> 6000],
     [progress |-> 75,  status |-> "Rendering video frames k...",                   delay |-> 8000],
     [progress |-> 90,  status |-> "Finalizing video k...",                         delay |-> 10000],
     [progress |-> 100, status |-> "completed",                                     delay |-> 12000] >>

NumSteps == Len(ParallelSteps)

SimulatedUrl == "https://example.com/videos/<videoId>.mp4"
UpstreamUri == "generatedVideo.video.uri"

JobIds == { OperationNames[k] : k \in 1..Len(OperationNames) }
QueryIds == JobIds \cup PrototypeKeys \cup UnknownIds

PollOutcomes == {"notDone", "doneVideo", "doneNoVideo", "failed"}
(* and the answer whose generated video carries no uri *)
PollOutcomesAnyUri == PollOutcomes \cup {"doneVideoNoUri"}

(* ----------------------------- registry -------------------------------- *)
(* videoStatuses.exists is FALSE while this.videoStatuses is undefined     *)
Jobs == videoStatuses.jobs
Registered == IF videoStatuses.exists THEN DOMAIN Jobs ELSE {}

(* this.videoStatuses && this.videoStatuses[videoId]: a property read on a *)
(* plain object also finds what Object.prototype supplies                  *)
HasEntry(videoId) == videoStatuses.exists /\ videoId \in DOMAIN Jobs
InheritedKey(videoId) ==
  videoStatuses.exists /\ videoId \notin DOMAIN Jobs /\ videoId \in PrototypeKeys
LookupTruthy(videoId) == HasEntry(videoId) \/ InheritedKey(videoId)

IsTerminal(status) == status \in {Completed, ErrorStatus}

(* ------------------------------ timers --------------------------------- *)
StepsOf(t) == IF t.sequential THEN SequentialSteps ELSE ParallelSteps
TimerPending(videoId) == videoId \in DOMAIN timers /\ timers[videoId].next <= NumSteps
TimerDeadline(videoId) ==
  timers[videoId].start + StepsOf(timers[videoId])[timers[videoId].next].delay

PendingDeadlines ==
  { TimerDeadline(v) : v \in { w \in DOMAIN timers : TimerPending(w) } }
    \cup (IF disp.pc = "waiting" THEN {disp.waitDue} ELSE {})

(* a callback whose time has come runs once no callback due earlier is left *)
MayFire(deadline) ==
  /\ now >= deadline
  /\ \A dl \in PendingDeadlines : dl >= deadline

(* ret is what the call that ended in the last step returned: the status  *)
(* record of getVideoStatus, or NoReturn when no call ended in that step   *)
NoReturn == [videoId |-> Undefined, status |-> "no return", progress |-> NoProgress,
             downloadUrl |-> Undefined, error |-> Undefined]

(* the script splitter before it is called *)
NoSplit == [pc |-> "idle", script |-> [sentences |-> <<>>, tail |-> 0],
            sentences |-> <<>>, rawSegments |-> <<>>, finalSegments |-> <<>>, i |-> 0,
            history |-> <<>>]

(* a second invocation of generateVideosWithVeo3 before it is made *)
NoOther == [pc |-> "idle", segments |-> <<>>, quality |-> DefaultQuality, i |-> 0,
            videos |-> <<>>]

(* what downloadVideo handed its caller, when the step just taken was a    *)
(* downloadVideo call: bytes of some length, or an exception               *)
NoDownload == [videoId |-> Undefined, outcome |-> "no call", length |-> 0,
               placeholder |-> FALSE, fetched |-> FALSE, error |-> Undefined]

Init ==
  /\ now = 0
  /\ videoStatuses = [exists |-> FALSE, jobs |-> <<>>]
  /\ timers = <<>>
  /\ disp = [pc |-> "idle", sequential |-> FALSE, quality |-> "standard",
             segments |-> <<>>, i |-> 0, videos |-> <<>>, totalEstimatedTime |-> 0,
             waitId |-> Undefined, waitDue |-> 0]
  /\ calls = <<>>
  /\ observed = <<>>
  /\ polls = <<>>
  /\ requests = 0
  /\ ret = NoReturn
  /\ download = NoDownload
  /\ split = NoSplit
  /\ other = NoOther

(* --------------------------- the dispatch loop ------------------------- *)
(* the segment lists dispatched: dialogues just above and at the complexity *)
(* threshold in turn, so that neighbouring segments differ in their        *)
(* estimated time                                                          *)
Segments ==
  { [k \in 1..n |-> [dialogueLength |-> IF k % 2 = 1 THEN ComplexityThreshold + 1
                                                     ELSE ComplexityThreshold]]
      : n \in 1..MaxSegs }

(* the slot pushed by the try block of either branch *)
SuccessSlot(k, videoId, estimatedTime, sequential) ==
  [segmentIndex |-> k, videoId |-> videoId, status |-> Processing, progress |-> 0,
   estimatedTime |-> estimatedTime, downloadUrl |-> Null, sequential |-> sequential]

(* ErrorSlot numbering the slot with the loop variable i instead of i + 1 *)
ErrorSlot_ZeroBased(k, message, estimatedTime) ==
  LET isQuotaError == Includes(message, Pattern429) \/ Includes(message, PatternExhausted)
      errorMessage == IF isQuotaError THEN QuotaMessage ELSE message
  IN  [segmentIndex |-> k - 1, videoId |-> Null, status |-> ErrorStatus,
       error |-> errorMessage, estimatedTime |-> estimatedTime,
       quotaExceeded |-> isQuotaError]

(* ErrorSlot recognising a quota error by '429' alone *)
ErrorSlot_Only429(k, message, estimatedTime) ==
  LET isQuotaError == Includes(message, Pattern429)
      errorMessage == IF isQuotaError THEN QuotaMessage ELSE message
  IN  [segmentIndex |-> k, videoId |-> Null, status |-> ErrorStatus,
       error |-> errorMessage, estimatedTime |-> estimatedTime,
       quotaExceeded |-> isQuotaError]

(* the slot pushed by the catch block of either branch *)
ErrorSlot(k, message, estimatedTime) ==
  LET isQuotaError == Includes(message, Pattern429) \/ Includes(message, PatternExhausted)
      errorMessage == IF isQuotaError THEN QuotaMessage ELSE message
  IN  [segmentIndex |-> k, videoId |-> Null, status |-> ErrorStatus,
       error |-> errorMessage, estimatedTime |-> estimatedTime,
       quotaExceeded |-> isQuotaError]

(* an entry whose estimatedCompletion adds the estimate without the * 1000 *)
NewEntry_SecondsAsMillis(videoId, k, estimatedTime, sequential, operation) ==
  [id |-> videoId, status |-> Processing, progress |-> 0,
   startTime |-> now, estimatedCompletion |-> now + estimatedTime,
   segmentIndex |-> k, sequential |-> sequential, operation |-> operation,
   downloadUrl |-> Undefined, error |-> Undefined]

(* the registry entry written after callVeo3API resolved *)
NewEntry(videoId, k, estimatedTime, sequential, operation) ==
  [id |-> videoId, status |-> Processing, progress |-> 0,
   startTime |-> now, estimatedCompletion |-> now + estimatedTime * 1000,
   segmentIndex |-> k, sequential |-> sequential, operation |-> operation,
   downloadUrl |-> Undefined, error |-> Undefined]

(* Advance leaving the loop after a failed segment (fail-fast) *)
Advance_FailFast(d) ==
  IF d.i < Len(d.segments) /\ d.videos[Len(d.videos)].status # ErrorStatus
  THEN /\ disp' = [d EXCEPT !.pc = "submitting", !.i = d.i + 1]
       /\ calls' = Append(calls, d.i + 1)
  ELSE /\ disp' = [d EXCEPT !.pc = "returned"]
       /\ calls' = calls

(* the end of one loop iteration: the next iteration runs up to its await  *)
(* of callVeo3API, or the loop ends and the result is returned             *)
Advance(d) ==
  IF d.i < Len(d.segments)
  THEN /\ disp' = [d EXCEPT !.pc = "submitting", !.i = d.i + 1]
       /\ calls' = Append(calls, d.i + 1)
  ELSE /\ disp' = [d EXCEPT !.pc = "returned"]
       /\ calls' = calls

generateVideosWithVeo3(segments, quality, sequential) ==
  /\ disp.pc = "idle"
  /\ disp' = [disp EXCEPT !.pc = "submitting", !.sequential = sequential,
                          !.quality = quality, !.segments = segments, !.i = 1]
  /\ calls' = <<1>>
  /\ ret' = NoReturn
  /\ download' = NoDownload
  /\ UNCHANGED <<other, split, now, videoStatuses, timers, observed, polls, requests>>

(* a registry keyed by the segment's number within its dispatch *)
RegistryKey_BySegment(videoResultId, k) == OperationNames[k]

(* the key under which a job is registered, watched and reported: the id   *)
(* callVeo3API returned (lines 234, 252, 256 and 323, 338, 342)            *)
RegistryKey(videoResultId, k) == videoResultId

(* callVeo3API resolved: lines 232-273 (sequential), 321-350 (parallel) *)
SubmitOk(operation) ==
  /\ disp.pc = "submitting"
  /\ Cardinality(Registered) < Len(OperationNames)
  /\ LET videoId == RegistryKey(OperationNames[Cardinality(Registered) + 1], disp.i)
         k == disp.i
         estimatedTime == estimateVideoGenerationTime(disp.segments[k], disp.quality)
         d == [disp EXCEPT
                 !.videos = Append(@, SuccessSlot(k, videoId, estimatedTime, disp.sequential)),
                 !.totalEstimatedTime = @ + estimatedTime]
     IN  /\ videoStatuses' =
              [exists |-> TRUE,
               jobs |-> (videoId :> NewEntry(videoId, k, estimatedTime, disp.sequential, operation))
                          @@ Jobs]
         /\ timers' = (videoId :> [sequential |-> disp.sequential, start |-> now, next |-> 1])
                        @@ timers
         /\ IF disp.sequential /\ k < Len(disp.segments)
            THEN /\ disp' = [d EXCEPT !.pc = "waiting", !.waitId = videoId,
                                      !.waitDue = now + CheckInterval]
                 /\ calls' = calls
            ELSE Advance(d)
  /\ ret' = NoReturn
  /\ download' = NoDownload
  /\ UNCHANGED <<other, split, now, observed, polls, requests>>

(* a second invocation made while the first is running (the service is one *)
(* object shared by all requests); it runs in the default, parallel mode   *)
concurrentDispatch(segments, quality) ==
  /\ disp.pc \in {"submitting", "waiting"}
  /\ other.pc = "idle"
  /\ other' = [pc |-> "submitting", segments |-> segments, quality |-> quality,
               i |-> 1, videos |-> <<>>]
  /\ ret' = NoReturn
  /\ download' = NoDownload
  /\ UNCHANGED <<split, now, videoStatuses, timers, disp, calls, observed, polls, requests>>

(* the end of one iteration of the second invocation's loop *)
AdvanceOther(o) ==
  IF o.i < Len(o.segments)
  THEN [o EXCEPT !.i = o.i + 1]
  ELSE [o EXCEPT !.pc = "returned"]

(* callVeo3API resolved in the second invocation: lines 321-350 *)
ConcurrentSubmitOk(operation) ==
  /\ other.pc = "submitting"
  /\ Cardinality(Registered) < Len(OperationNames)
  /\ LET videoId == RegistryKey(OperationNames[Cardinality(Registered) + 1], other.i)
         k == other.i
         estimatedTime == estimateVideoGenerationTime(other.segments[k], other.quality)
     IN  /\ videoStatuses' =
              [exists |-> TRUE,
               jobs |-> (videoId :> NewEntry(videoId, k, estimatedTime, FALSE, operation))
                          @@ Jobs]
         /\ timers' = (videoId :> [sequential |-> FALSE, start |-> now, next |-> 1])
                        @@ timers
         /\ other' = AdvanceOther([other EXCEPT
                        !.videos = Append(@, SuccessSlot(k, videoId, estimatedTime, FALSE))])
  /\ ret' = NoReturn
  /\ download' = NoDownload
  /\ UNCHANGED <<split, now, disp, calls, observed, polls, requests>>

(* callVeo3API threw in the second invocation: lines 352-369 *)
ConcurrentSubmitFail(message) ==
  /\ other.pc = "submitting"
  /\ LET k == other.i
         estimatedTime == estimateVideoGenerationTime(other.segments[k], other.quality)
     IN  other' = AdvanceOther([other EXCEPT
                    !.videos = Append(@, ErrorSlot(k, message, estimatedTime))])
  /\ ret' = NoReturn
  /\ download' = NoDownload
  /\ UNCHANGED <<split, now, videoStatuses, timers, disp, calls, observed, polls, requests>>

(* the catch block also entering a terminal 'error' job in the registry *)
SubmitFail_Registers(message) ==
  /\ disp.pc = "submitting"
  /\ Cardinality(Registered) < Len(OperationNames)
  /\ LET k == disp.i
         estimatedTime == estimateVideoGenerationTime(disp.segments[k], disp.quality)
         videoId == OperationNames[Cardinality(Registered) + 1]
     IN  /\ Advance([disp EXCEPT !.videos = Append(@, ErrorSlot(k, message, estimatedTime))])
         /\ videoStatuses' =
              [exists |-> TRUE,
               jobs |-> (videoId :> [NewEntry(videoId, k, estimatedTime, disp.sequential,
                                              [done |-> TRUE])
                                      EXCEPT !.status = ErrorStatus])
                          @@ Jobs]
  /\ ret' = NoReturn
  /\ download' = NoDownload
  /\ UNCHANGED <<other, split, now, timers, observed, polls, requests>>

(* the catch block adding the failed segment's estimate to the total *)
SubmitFail_CountsEstimate(message) ==
  /\ disp.pc = "submitting"
  /\ LET k == disp.i
         estimatedTime == estimateVideoGenerationTime(disp.segments[k], disp.quality)
     IN  Advance([disp EXCEPT !.videos = Append(@, ErrorSlot(k, message, estimatedTime)),
                              !.totalEstimatedTime = @ + estimatedTime])
  /\ ret' = NoReturn
  /\ download' = NoDownload
  /\ UNCHANGED <<other, split, now, videoStatuses, timers, observed, polls, requests>>

(* callVeo3API threw: the catch blocks, lines 275-304 and 352-369 *)
SubmitFail(message) ==
  /\ disp.pc = "submitting"
  /\ LET k == disp.i
         estimatedTime == estimateVideoGenerationTime(disp.segments[k], disp.quality)
     IN  Advance([disp EXCEPT !.videos = Append(@, ErrorSlot(k, message, estimatedTime))])
  /\ ret' = NoReturn
  /\ download' = NoDownload
  /\ UNCHANGED <<other, split, now, videoStatuses, timers, observed, polls, requests>>

(* the wait ending as soon as the job has left 'processing' *)
WaitIsOver_AnyChange(entry) == entry.status # Processing

(* the test of line 638 *)
WaitIsOver(entry) == entry.status = Completed

(* one run of checkCompletion from its timer; observed logs the id, the    *)
(* status seen and the time of every run that resolved the wait            *)
waitForVideoCompletion ==
  /\ disp.pc = "waiting"
  /\ MayFire(disp.waitDue)
  /\ IF LookupTruthy(disp.waitId)
     THEN IF HasEntry(disp.waitId) /\ WaitIsOver(Jobs[disp.waitId])
          THEN /\ observed' = Append(observed, [videoId |-> disp.waitId,
                                                status |-> Jobs[disp.waitId].status,
                                                at |-> now])
               /\ Advance(disp)
          ELSE /\ disp' = [disp EXCEPT !.waitDue = now + CheckInterval]
               /\ UNCHANGED <<calls, observed>>
     ELSE /\ observed' = Append(observed, [videoId |-> disp.waitId,
                                           status |-> NotFound, at |-> now])
          /\ Advance(disp)
  /\ ret' = NoReturn
  /\ download' = NoDownload
  /\ UNCHANGED <<other, split, now, videoStatuses, timers, polls, requests>>

(* ------------------------- simulated timeline -------------------------- *)
(* a last step that leaves out the block of lines 582-586 *)
ApplyStep_NoUrl(entry, step) ==
  [entry EXCEPT !.progress = step.progress, !.status = step.status]

(* the body of one setTimeout callback of simulateProgress or of          *)
(* simulateSequentialProgress                                              *)
ApplyStep(entry, step) ==
  IF step.progress = 100
  THEN [entry EXCEPT !.progress = step.progress, !.status = Completed,
                     !.downloadUrl = SimulatedUrl]
  ELSE [entry EXCEPT !.progress = step.progress, !.status = step.status]

simulateProgress(videoId) ==
  /\ TimerPending(videoId)
  /\ MayFire(TimerDeadline(videoId))
  /\ LET step == StepsOf(timers[videoId])[timers[videoId].next]
     IN  videoStatuses' =
           IF HasEntry(videoId)
           THEN [videoStatuses EXCEPT !.jobs[videoId] = ApplyStep(@, step)]
           ELSE videoStatuses
  /\ timers' = [timers EXCEPT ![videoId].next = @ + 1]
  /\ ret' = NoReturn
  /\ download' = NoDownload
  /\ UNCHANGED <<other, split, now, disp, calls, observed, polls, requests>>

(* ---------------------------- status query ----------------------------- *)
StatusOf(videoId, entry) ==
  [videoId |-> videoId, status |-> entry.status, progress |-> entry.progress,
   downloadUrl |-> entry.downloadUrl, error |-> entry.error]

(* polling whether or not the stored operation is done *)
LiveOperation_Always(entry) == TRUE

(* the stored operation is present and not done: line 680 *)
LiveOperation(entry) == ~entry.operation.done

(* getVideoStatus up to its return, or up to its await of the poll request; *)
(* maxPolls caps the upstream requests of a run                            *)
getVideoStatusWithin(videoId, maxPolls) ==
  /\ IF ~LookupTruthy(videoId)
     THEN /\ ret' = [videoId |-> videoId, status |-> NotFound, progress |-> 0,
                     downloadUrl |-> Undefined, error |-> VideoNotFoundError]
          /\ UNCHANGED <<polls, requests>>
     ELSE IF InheritedKey(videoId)
     THEN /\ ret' = [videoId |-> videoId, status |-> Undefined, progress |-> NoProgress,
                     downloadUrl |-> Undefined, error |-> Undefined]
          /\ UNCHANGED <<polls, requests>>
     ELSE IF LiveOperation(Jobs[videoId])
     THEN /\ requests < maxPolls
          /\ requests' = requests + 1
          /\ polls' = Append(polls, [videoId |-> videoId,
                                     statusAtCall |-> Jobs[videoId].status])
          /\ ret' = NoReturn
     ELSE /\ ret' = StatusOf(videoId, Jobs[videoId])
          /\ UNCHANGED <<polls, requests>>
  /\ download' = NoDownload
  /\ UNCHANGED <<other, split, now, videoStatuses, timers, disp, calls, observed>>

getVideoStatus(videoId) == getVideoStatusWithin(videoId, MaxPolls)

(* what lines 711-749 make of the entry once the poll request has settled *)
(* Math.round((elapsed / estimatedTotal) * 100) as the program computes it, *)
(* in IEEE-754 doubles: the quotient is rounded to the nearest double and   *)
(* so is its product with 100, and a percentage that is exactly n + 0.5 in  *)
(* the reals comes out just below n + 0.5 for the n of DoubleTiesBelow      *)
(* (0.145 * 100 is 14.499999999999998, 0.575 * 100 is 57.49999999999999);   *)
(* away from these ties the double and the real number round alike          *)
DoubleTiesBelow == {14, 28, 56, 57}

RoundPercent(elapsed, total) ==
  LET n == (100 * elapsed) \div total
      tie == 200 * elapsed = (2 * n + 1) * total
  IN  IF tie /\ n \in DoubleTiesBelow THEN n ELSE RoundDiv(100 * elapsed, total)

PollProgress(entry) ==
  LET elapsed == now - entry.startTime
      estimatedTotal == entry.estimatedCompletion - entry.startTime
  IN  Min(ProgressCap, RoundPercent(elapsed, estimatedTotal))

(* a poll that takes every finished operation for a finished video *)
ApplyPoll_AnyDoneCompletes(entry, outcome, message) ==
  CASE outcome = "failed" ->
         [entry EXCEPT !.status = ErrorStatus, !.error = message]
    [] outcome \in {"doneVideo", "doneNoVideo", "doneVideoNoUri"} ->
         [entry EXCEPT !.operation = [done |-> TRUE],
                       !.status = Completed, !.progress = 100,
                       !.downloadUrl = IF outcome = "doneVideo" THEN UpstreamUri
                                                                ELSE Undefined]
    [] OTHER ->
         [entry EXCEPT !.operation = [done |-> FALSE],
                       !.progress = PollProgress(entry)]

(* a poll whose catch block logs the failure and records nothing *)
ApplyPoll_FailureSwallowed(entry, outcome, message) ==
  CASE outcome = "failed" -> entry
    [] outcome = "doneVideo" ->
         [entry EXCEPT !.operation = [done |-> TRUE],
                       !.status = Completed, !.progress = 100,
                       !.downloadUrl = UpstreamUri]
    [] outcome = "doneNoVideo" ->
         [entry EXCEPT !.operation = [done |-> TRUE],
                       !.status = ErrorStatus, !.error = NoVideoError]
    [] outcome = "doneVideoNoUri" ->
         [entry EXCEPT !.operation = [done |-> TRUE],
                       !.status = Completed, !.progress = 100,
                       !.downloadUrl = Undefined]
    [] OTHER ->
         [entry EXCEPT !.operation = [done |-> FALSE],
                       !.progress = PollProgress(entry)]

(* a settled poll that leaves out line 711 and keeps the stored operation *)
ApplyPoll_OperationNotStored(entry, outcome, message) ==
  CASE outcome = "failed" ->
         [entry EXCEPT !.status = ErrorStatus, !.error = message]
    [] outcome = "doneVideo" ->
         [entry EXCEPT !.status = Completed, !.progress = 100,
                       !.downloadUrl = UpstreamUri]
    [] outcome = "doneNoVideo" ->
         [entry EXCEPT !.status = ErrorStatus, !.error = NoVideoError]
    [] outcome = "doneVideoNoUri" ->
         [entry EXCEPT !.status = Completed, !.progress = 100,
                       !.downloadUrl = Undefined]
    [] OTHER ->
         [entry EXCEPT !.progress = PollProgress(entry)]

(* lines 711-749: what the settled poll request makes of the entry *)
ApplyPoll(entry, outcome, message) ==
  CASE outcome = "failed" ->
         [entry EXCEPT !.status = ErrorStatus, !.error = message]
    [] outcome = "doneVideo" ->
         [entry EXCEPT !.operation = [done |-> TRUE],
                       !.status = Completed, !.progress = 100,
                       !.downloadUrl = UpstreamUri]
    [] outcome = "doneNoVideo" ->
         [entry EXCEPT !.operation = [done |-> TRUE],
                       !.status = ErrorStatus, !.error = NoVideoError]
    [] outcome = "doneVideoNoUri" ->
         [entry EXCEPT !.operation = [done |-> TRUE],
                       !.status = Completed, !.progress = 100,
                       !.downloadUrl = Undefined]
    [] OTHER ->
         [entry EXCEPT !.operation = [done |-> FALSE],
                       !.progress = PollProgress(entry)]

Remove(seq, j) == [n \in 1..(Len(seq) - 1) |-> IF n < j THEN seq[n] ELSE seq[n + 1]]

(* the rest of getVideoStatus after the poll request polls[j] has settled *)
PollSettled(j, outcome, message) ==
  /\ j \in 1..Len(polls)
  /\ LET videoId == polls[j].videoId
         updated == ApplyPoll(Jobs[videoId], outcome, message)
     IN  /\ videoStatuses' = [videoStatuses EXCEPT !.jobs[videoId] = updated]
         /\ ret' = StatusOf(videoId, updated)
  /\ polls' = Remove(polls, j)
  /\ download' = NoDownload
  /\ UNCHANGED <<other, split, now, timers, disp, calls, observed, requests>>

(* ------------------------------ download ------------------------------- *)
NotFoundOrNotCompleted == "Video not found or not completed"
NotReadyForDownload == "Video is not ready for download"

(* how this.genAI.files.download can settle: with the file's bytes, or by  *)
(* rejecting; sizes of the files the upstream service stores               *)
DownloadOutcomes == {"bytes", "rejected"}
FileLengths == {1, 4096}

(* generateVideoPlaceholder: the ftyp/mdat header followed by 1 KB of zeros *)
generateVideoPlaceholder == Mp4HeaderLength + PlaceholderBodyLength

Thrown(videoId, message) ==
  [videoId |-> videoId, outcome |-> "threw", length |-> 0, placeholder |-> FALSE,
   fetched |-> FALSE, error |-> message]

(* a download that lets the failure of the request reach the caller *)
DownloadResult_Propagates(videoId, entry, outcome, fileLength) ==
  IF entry.downloadUrl # Undefined /\ outcome = "bytes"
  THEN [videoId |-> videoId, outcome |-> "returned", length |-> fileLength,
        placeholder |-> FALSE, fetched |-> TRUE, error |-> Undefined]
  ELSE [Thrown(videoId, "download failed") EXCEPT
          !.fetched = (entry.downloadUrl # Undefined)]

(* lines 777-799: the try block of downloadVideo and its catch *)
DownloadResult(videoId, entry, outcome, fileLength) ==
  IF entry.downloadUrl # Undefined /\ outcome = "bytes"
  THEN [videoId |-> videoId, outcome |-> "returned", length |-> fileLength,
        placeholder |-> FALSE, fetched |-> TRUE, error |-> Undefined]
  ELSE [videoId |-> videoId, outcome |-> "returned",
        length |-> generateVideoPlaceholder, placeholder |-> TRUE,
        fetched |-> (entry.downloadUrl # Undefined), error |-> Undefined]

(* a download that is refused only to jobs that failed *)
ReadyForDownload_NotError(entry) == entry.status # ErrorStatus

(* line 773 *)
ReadyForDownload(entry) == entry.status = Completed

(* downloadVideo from its call to its return or its exception; nothing of  *)
(* the registry is read after the request has been sent                    *)
downloadVideo(videoId, outcome, fileLength) ==
  /\ download' =
       IF ~LookupTruthy(videoId) THEN Thrown(videoId, NotFoundOrNotCompleted)
       ELSE IF InheritedKey(videoId) THEN Thrown(videoId, NotReadyForDownload)
       ELSE IF ~ReadyForDownload(Jobs[videoId]) THEN Thrown(videoId, NotReadyForDownload)
       ELSE DownloadResult(videoId, Jobs[videoId], outcome, fileLength)
  /\ ret' = NoReturn
  /\ UNCHANGED <<other, split, now, videoStatuses, timers, disp, calls, observed, polls, requests>>

(* ------------------------------- clock --------------------------------- *)
(* time is counted from the dispatch, and a submission request settles     *)
(* within the clock step in which it was issued; a callback that is due    *)
(* runs before the clock moves on                                          *)
TickWithin(maxTicks) ==
  /\ now < maxTicks * CheckInterval
  /\ disp.pc \notin {"idle", "submitting"}
  /\ other.pc # "submitting"
  /\ \A dl \in PendingDeadlines : now < dl
  /\ now' = now + CheckInterval
  /\ ret' = NoReturn
  /\ download' = NoDownload
  /\ UNCHANGED <<other, split, videoStatuses, timers, disp, calls, observed, polls, requests>>

Tick == TickWithin(MaxTicks)
TickLong == TickWithin(MaxLongTicks)

(* the operation callVeo3API returns: done is result.done || false; the    *)
(* program never reads any other field of a stored operation               *)
Operations == { [done |-> FALSE], [done |-> TRUE] }

(* ids a caller asks about: the jobs it was handed, a prototype key, and   *)
(* an id that was never handed out (the route passes any URL parameter)    *)
AskedIds == Registered \cup PrototypeKeys \cup UnknownIds

Next ==
  \/ \E segments \in Segments, sequential \in BOOLEAN :
       generateVideosWithVeo3(segments, DefaultQuality, sequential)
  \/ \E operation \in Operations : SubmitOk(operation)
  \/ \E message \in ErrorMessages : SubmitFail(message)
  \/ waitForVideoCompletion
  \/ \E videoId \in JobIds : simulateProgress(videoId)
  \/ \E videoId \in AskedIds : getVideoStatus(videoId)
  \/ \E j \in 1..MaxPolls, outcome \in PollOutcomes, message \in PollErrors :
       PollSettled(j, outcome, message)
  \/ Tick

Spec == Init /\ [][Next]_vars

(* two invocations of generateVideosWithVeo3 at the same time, with the    *)
(* timelines they start                                                    *)
NextConcurrent ==
  \/ \E segments \in Segments, sequential \in BOOLEAN :
       generateVideosWithVeo3(segments, DefaultQuality, sequential)
  \/ \E operation \in Operations : SubmitOk(operation)
  \/ \E message \in ErrorMessages : SubmitFail(message)
  \/ \E segments \in Segments : concurrentDispatch(segments, DefaultQuality)
  \/ \E operation \in Operations : ConcurrentSubmitOk(operation)
  \/ \E message \in ErrorMessages : ConcurrentSubmitFail(message)
  \/ waitForVideoCompletion
  \/ \E videoId \in JobIds : simulateProgress(videoId)
  \/ Tick

SpecConcurrent == Init /\ [][NextConcurrent]_vars

(* one job followed over its whole estimated generation time: a dispatch   *)
(* of a single segment, with the same operations and a longer clock        *)
SingleSegments == { <<[dialogueLength |-> n]>> : n \in DialogueLengths }

(* one job asked about several times, its poll requests in flight one at a *)
(* time or together                                                        *)
NextPolling ==
  \/ \E segments \in SingleSegments, sequential \in BOOLEAN :
       generateVideosWithVeo3(segments, DefaultQuality, sequential)
  \/ \E operation \in Operations : SubmitOk(operation)
  \/ \E message \in ErrorMessages : SubmitFail(message)
  \/ \E videoId \in JobIds : simulateProgress(videoId)
  \/ \E videoId \in Registered : getVideoStatusWithin(videoId, MaxRequests)
  \/ \E j \in 1..MaxRequests, outcome \in PollOutcomes, message \in PollErrors :
       PollSettled(j, outcome, message)
  \/ Tick

SpecPolling == Init /\ [][NextPolling]_vars

NextLong ==
  \/ \E segments \in SingleSegments, quality \in Qualities, sequential \in BOOLEAN :
       generateVideosWithVeo3(segments, quality, sequential)
  \/ \E operation \in Operations : SubmitOk(operation)
  \/ \E message \in ErrorMessages : SubmitFail(message)
  \/ \E videoId \in JobIds : simulateProgress(videoId)
  \/ \E videoId \in AskedIds : getVideoStatus(videoId)
  \/ \E j \in 1..MaxPolls, outcome \in PollOutcomes, message \in PollErrors :
       PollSettled(j, outcome, message)
  \/ TickLong

SpecLong == Init /\ [][NextLong]_vars

(* dispatches of every mix of dialogue lengths (none, at the threshold,    *)
(* above it) and qualities, followed up to the settling of each submission *)
EstimateQualities == Qualities \cup {"draft"}
EstimateLengths == DialogueLengths \cup {0}
EstimateSegments ==
  UNION { [1..n -> { [dialogueLength |-> l] : l \in EstimateLengths }] : n \in 1..MaxSegs }

NextEstimate ==
  \/ \E segments \in EstimateSegments, quality \in EstimateQualities, sequential \in BOOLEAN :
       generateVideosWithVeo3(segments, quality, sequential)
  \/ \E operation \in Operations : SubmitOk(operation)
  \/ \E message \in ErrorMessages : SubmitFail(message)

SpecEstimate == Init /\ [][NextEstimate]_vars

(* the dispatch and the simulated timelines alone, with no status query,   *)
(* on a clock that runs until every timeline has run out; the event loop   *)
(* runs every callback that is due and every submission settles            *)
TimelineTicks == 13 * MaxSegs + 30
TickTimeline == TickWithin(TimelineTicks)

NextTimeline ==
  \/ \E segments \in Segments, sequential \in BOOLEAN :
       generateVideosWithVeo3(segments, DefaultQuality, sequential)
  \/ \E operation \in Operations : SubmitOk(operation)
  \/ \E message \in ErrorMessages : SubmitFail(message)
  \/ waitForVideoCompletion
  \/ \E videoId \in JobIds : simulateProgress(videoId)
  \/ TickTimeline

SubmissionSettles ==
  \/ \E operation \in Operations : SubmitOk(operation)
  \/ \E message \in ErrorMessages : SubmitFail(message)

SpecTimeline ==
  /\ Init /\ [][NextTimeline]_vars
  /\ WF_vars(TickTimeline)
  /\ WF_vars(waitForVideoCompletion)
  /\ WF_vars(SubmissionSettles)
  /\ \A videoId \in JobIds : WF_vars(simulateProgress(videoId))

(* one job, its timers and polls, and download requests for it *)
NextDownload ==
  \/ \E segments \in SingleSegments, sequential \in BOOLEAN :
       generateVideosWithVeo3(segments, DefaultQuality, sequential)
  \/ \E operation \in Operations : SubmitOk(operation)
  \/ \E message \in ErrorMessages : SubmitFail(message)
  \/ \E videoId \in JobIds : simulateProgress(videoId)
  \/ \E videoId \in AskedIds : getVideoStatus(videoId)
  \/ \E j \in 1..MaxPolls, outcome \in PollOutcomesAnyUri, message \in PollErrors :
       PollSettled(j, outcome, message)
  \/ \E videoId \in AskedIds, outcome \in DownloadOutcomes, fileLength \in FileLengths :
       downloadVideo(videoId, outcome, fileLength)
  \/ Tick

SpecDownload == Init /\ [][NextDownload]_vars

(* the value generateVideosWithVeo3 returns, lines 373-378 *)
(* --------------------------- script splitter --------------------------- *)
(* A script is its terminated sentences, each with its number of words,    *)
(* followed by tail words that no '.', '!' or '?' closes (none: tail 0).   *)
(* A piece of text is the list of the script's pieces it holds, in order,  *)
(* and whether it begins with whitespace.                                  *)
SentenceWords == {1, 5, 10, 15, 22}
TailWords == {0, 3}
Scripts ==
  { [sentences |-> ss, tail |-> t] :
      ss \in UNION { [1..n -> SentenceWords] : n \in 0..MaxSentences },
      t \in TailWords }

Pieces(script) ==
  script.sentences \o (IF script.tail > 0 THEN <<script.tail>> ELSE <<>>)

RECURSIVE WordsOf(_, _)
WordsOf(script, ids) ==
  IF ids = <<>> THEN 0 ELSE Pieces(script)[Head(ids)] + WordsOf(script, Tail(ids))

(* text.split(/\s+/).length: an empty string splits into one empty field, *)
(* and leading whitespace adds an empty field in front of the words        *)
SplitLength(script, text) ==
  IF text.ids = <<>>
  THEN IF text.lead THEN 2 ELSE 1
  ELSE WordsOf(script, text.ids) + (IF text.lead THEN 1 ELSE 0)

Trim(text) == [text EXCEPT !.lead = FALSE]

(* a + ' ' + b *)
Concat(a, b) == [ids |-> a.ids \o b.ids, lead |-> a.lead \/ a.ids = <<>>]

(* script.match(/[^.!?]+[.!?]+/g) || [script]: the terminated sentences,    *)
(* each from the end of the one before; words after the last terminator    *)
(* belong to no match; without any match, the script itself                *)
MatchScript(script) ==
  IF Len(script.sentences) > 0
  THEN [k \in 1..Len(script.sentences) |-> [ids |-> <<k>>, lead |-> k > 1]]
  ELSE << [ids |-> [k \in 1..Len(Pieces(script)) |-> k], lead |-> FALSE] >>

(* the same match on a segment: line 157 *)
MatchText(script, text) ==
  LET closed == SelectSeq(text.ids, LAMBDA id : id <= Len(script.sentences))
  IN  IF closed = <<>>
      THEN <<text>>
      ELSE [k \in 1..Len(closed) |->
              [ids |-> <<closed[k]>>, lead |-> IF k = 1 THEN text.lead ELSE TRUE]]

(* texts.join(' ') of a non-empty list *)
RECURSIVE Join(_)
Join(texts) ==
  IF Len(texts) = 1
  THEN texts[1]
  ELSE [ids |-> texts[1].ids \o Join(Tail(texts)).ids, lead |-> texts[1].lead]

(* a first pass that stops before the sentence that would pass the maximum *)
Appends_RespectsMax(currentWordCount, nextWords) ==
  currentWordCount + nextWords <= maxWordsFor8Seconds

(* lines 123-134: whether the next sentence joins the current segment *)
Appends(currentWordCount, nextWords) ==
  IF currentWordCount + nextWords > maxWordsFor8Seconds
  THEN currentWordCount < minWordsFor6Seconds
  ELSE TRUE

(* a while loop that keeps taking sentences until the maximum is reached *)
RECURSIVE Grow_UntilMax(_, _, _, _, _)
Grow_UntilMax(script, sentences, i, currentSegment, currentWordCount) ==
  IF currentWordCount < maxWordsFor8Seconds /\ i + 1 <= Len(sentences)
  THEN LET nextSentence == Trim(sentences[i + 1])
           nextWords == SplitLength(script, nextSentence)
       IN  IF Appends(currentWordCount, nextWords)
           THEN Grow_UntilMax(script, sentences, i + 1,
                              Concat(currentSegment, nextSentence),
                              currentWordCount + nextWords)
           ELSE [segment |-> currentSegment, i |-> i]
  ELSE [segment |-> currentSegment, i |-> i]

(* a first pass without the while loop: every sentence its own segment *)
Grow_OneSentence(script, sentences, i, currentSegment, currentWordCount) ==
  [segment |-> currentSegment, i |-> i]

(* the while loop of lines 118-135, from sentence i (already taken) on *)
RECURSIVE Grow(_, _, _, _, _)
Grow(script, sentences, i, currentSegment, currentWordCount) ==
  IF currentWordCount < minWordsFor6Seconds /\ i + 1 <= Len(sentences)
  THEN LET nextSentence == Trim(sentences[i + 1])
           nextWords == SplitLength(script, nextSentence)
       IN  IF Appends(currentWordCount, nextWords)
           THEN Grow(script, sentences, i + 1, Concat(currentSegment, nextSentence),
                     currentWordCount + nextWords)
           ELSE [segment |-> currentSegment, i |-> i]
  ELSE [segment |-> currentSegment, i |-> i]

splitVars == <<now, videoStatuses, timers, disp, calls, observed, polls, requests, ret,
               download, other>>

(* line 104 *)
matchSentences ==
  /\ split.pc = "called"
  /\ split' = [split EXCEPT !.pc = "accumulating",
                            !.sentences = MatchScript(split.script), !.i = 1]
  /\ UNCHANGED splitVars

(* one round of the for loop of lines 110-141 *)
accumulate ==
  /\ split.pc = "accumulating"
  /\ LET sentence == Trim(split.sentences[split.i])
         grown == Grow(split.script, split.sentences, split.i, sentence,
                       SplitLength(split.script, sentence))
         last == grown.i + 1 > Len(split.sentences)
     IN  split' = [split EXCEPT !.rawSegments = Append(@, grown.segment),
                               !.i = IF last THEN 1 ELSE grown.i + 1,
                               !.pc = IF last THEN "repairing" ELSE "accumulating"]
  /\ UNCHANGED splitVars

(* one round of the for loop of lines 145-183: borrow the next segment's   *)
(* first sentence, or merge with the next segment, or keep the segment     *)
RepairStep(script, rawSegments, finalSegments, i) ==
  LET segment == rawSegments[i]
      wordCount == SplitLength(script, segment)
      hasNext == i < Len(rawSegments)
      nextSegment == rawSegments[i + 1]
      nextWords == SplitLength(script, nextSegment)
      nextSentences == MatchText(script, nextSegment)
      borrowedSentence == nextSentences[1]
      borrowedWords == SplitLength(script, borrowedSentence)
      borrows == /\ nextWords > minWordsFor6Seconds
                 /\ Len(nextSentences) > 1
                 /\ wordCount + borrowedWords <= maxWordsFor8Seconds
      merged == Concat(segment, nextSegment)
      mergedWords == SplitLength(script, merged)
  IN  IF wordCount < minWordsFor6Seconds /\ hasNext
      THEN IF borrows
           THEN [rawSegments |-> [rawSegments EXCEPT ![i + 1] = Join(Tail(nextSentences))],
                 finalSegments |-> Append(finalSegments, Concat(segment, borrowedSentence)),
                 i |-> i + 1]
           ELSE IF mergedWords <= MergeLimit
           THEN [rawSegments |-> rawSegments,
                 finalSegments |-> Append(finalSegments, merged),
                 i |-> i + 2]
           ELSE [rawSegments |-> rawSegments,
                 finalSegments |-> Append(finalSegments, segment),
                 i |-> i + 1]
      ELSE [rawSegments |-> rawSegments,
            finalSegments |-> Append(finalSegments, segment),
            i |-> i + 1]

repair ==
  /\ split.pc = "repairing"
  /\ LET step == RepairStep(split.script, split.rawSegments, split.finalSegments, split.i)
     IN  split' = [split EXCEPT !.rawSegments = step.rawSegments,
                               !.finalSegments = step.finalSegments,
                               !.i = step.i,
                               !.pc = IF step.i > Len(step.rawSegments)
                                      THEN "returned" ELSE "repairing",
                               !.history =
                                  IF step.i > Len(step.rawSegments)
                                  THEN Append(@, [script |-> split.script,
                                                  segments |-> step.finalSegments])
                                  ELSE @]
  /\ UNCHANGED splitVars

(* a call that finds the segment lists of the call before it *)
splitScript_KeepsSegments(script) ==
  /\ split.pc \in {"idle", "returned"}
  /\ Len(split.history) < MaxCalls
  /\ split' = [split EXCEPT !.pc = "called", !.script = script]
  /\ UNCHANGED splitVars

(* a call of splitScript: every local is declared anew (lines 104-108 and  *)
(* 143); history keeps the script and the result of every call that has    *)
(* returned                                                                *)
splitScript(script) ==
  /\ split.pc \in {"idle", "returned"}
  /\ Len(split.history) < MaxCalls
  /\ split' = [NoSplit EXCEPT !.pc = "called", !.script = script,
                              !.history = split.history]
  /\ UNCHANGED splitVars

(* splitScript called again and again, on scripts of up to two sentences *)
RepeatScripts ==
  { script \in Scripts :
      /\ Len(script.sentences) <= 2
      /\ \A k \in 1..Len(script.sentences) : script.sentences[k] \in {5, 15} }

NextRepeat ==
  \/ \E script \in RepeatScripts : splitScript(script)
  \/ matchSentences
  \/ accumulate
  \/ repair

SpecRepeat == Init /\ [][NextRepeat]_vars

(* splitScript applied to every script of Scripts *)
InitSplit ==
  /\ now = 0
  /\ videoStatuses = [exists |-> FALSE, jobs |-> <<>>]
  /\ timers = <<>>
  /\ disp = [pc |-> "idle", sequential |-> FALSE, quality |-> "standard",
             segments |-> <<>>, i |-> 0, videos |-> <<>>, totalEstimatedTime |-> 0,
             waitId |-> Undefined, waitDue |-> 0]
  /\ calls = <<>>
  /\ observed = <<>>
  /\ polls = <<>>
  /\ requests = 0
  /\ ret = NoReturn
  /\ download = NoDownload
  /\ other = NoOther
  /\ \E script \in Scripts : split = [NoSplit EXCEPT !.pc = "called", !.script = script]

NextSplit ==
  \/ matchSentences
  \/ accumulate
  \/ repair

SpecSplit == InitSplit /\ [][NextSplit]_vars

Result ==
  [videos |-> disp.videos, estimatedTime |-> disp.totalEstimatedTime,
   totalSegments |-> Len(disp.segments), sequential |-> disp.sequential]

Returned == disp.pc = "returned"
SlotFailed(k) == k \in 1..Len(disp.videos) /\ disp.videos[k].status = ErrorStatus
SlotCreated(k) == k \in 1..Len(disp.videos) /\ disp.videos[k].status = Processing

(* ------------------------------- claims -------------------------------- *)

(* C1: in both modes the returned result has exactly one entry per input   *)
(* segment, the k-th entry carrying segmentIndex k, and totalSegments is   *)
(* the input length, whatever subset of the submissions failed.            *)
C1_OneSlotPerSegment ==
  Returned =>
    /\ Len(Result.videos) = Len(disp.segments)
    /\ \A k \in 1..Len(Result.videos) : Result.videos[k].segmentIndex = k
    /\ Result.totalSegments = Len(disp.segments)

C1_Witness ==
  /\ Returned
  /\ Len(disp.segments) = MaxSegs
  /\ SlotFailed(1)
  /\ SlotCreated(MaxSegs)

(* C2: callVeo3API is called exactly once per segment, in input order: the *)
(* calls made so far are segments 1, 2, ... without a repeat, a failed     *)
(* segment that is not the last is followed by the call for the next one,  *)
(* and at the return every segment has been submitted.                     *)
C2_EachSegmentSubmittedOnce ==
  /\ \A n \in 1..Len(calls) : calls[n] = n
  /\ \A k \in 1..Len(disp.videos) :
       (SlotFailed(k) /\ k < Len(disp.segments)) => Len(calls) >= k + 1
  /\ Returned => Len(calls) = Len(disp.segments)

C2_Witness ==
  /\ Returned
  /\ Len(disp.segments) = MaxSegs
  /\ \A k \in 1..(MaxSegs - 1) : SlotFailed(k)
  /\ Len(calls) = MaxSegs

(* C3: in sequential mode the call for segment k+1 is made only after      *)
(* checkCompletion saw job k with status 'completed' (so job k+1 does not  *)
(* start before that moment), or after the error slot of segment k was     *)
(* recorded; submissions are made in input order.                          *)
C3_SequentialOrder ==
  disp.sequential =>
    /\ \A n \in 1..Len(calls) : calls[n] = n
    /\ Len(disp.videos) >= Len(calls) - 1
    /\ \A k \in 1..(Len(calls) - 1) :
         SlotCreated(k) =>
           \E o \in 1..Len(observed) :
             /\ observed[o].videoId = disp.videos[k].videoId
             /\ observed[o].status = Completed
             /\ SlotCreated(k + 1) =>
                  Jobs[disp.videos[k + 1].videoId].startTime >= observed[o].at

C3_Witness ==
  /\ disp.sequential
  /\ SlotCreated(1)
  /\ SlotCreated(2)
  /\ Len(observed) = 1

(* steps as seen on the state: a timer callback of job v ran, a call of    *)
(* getVideoStatus(v) was made, the poll request polls[j] settled           *)
TimerRan(v) ==
  /\ v \in DOMAIN timers
  /\ timers'[v].next = timers[v].next + 1

CallMade(v) ==
  \/ /\ Len(polls') = Len(polls) + 1
     /\ polls'[Len(polls')].videoId = v
  \/ /\ polls' = polls
     /\ ret' # NoReturn
     /\ ret'.videoId = v

Settled(j) == j \in 1..Len(polls) /\ polls' = Remove(polls, j)

SameOutcome(e1, e2) ==
  /\ e1.status = e2.status
  /\ e1.progress = e2.progress
  /\ e1.downloadUrl = e2.downloadUrl

(* C4: a timer of the simulated timeline that fires for a job whose status *)
(* is 'completed' or 'error' leaves its status, progress and downloadUrl   *)
(* unchanged.                                                              *)
C4_StaleTimerKeepsTerminal ==
  [][\A v \in JobIds :
       (HasEntry(v) /\ IsTerminal(Jobs[v].status) /\ TimerRan(v))
         => SameOutcome(Jobs[v], videoStatuses'.jobs[v])]_vars

(* C5: a getVideoStatus call made for a job whose status is 'completed' or *)
(* 'error' does not change its status, progress, downloadUrl or error,     *)
(* whatever the poll reports.                                              *)
C5_TerminalFinalUnderPolling ==
  [][\A j \in 1..MaxPolls :
       (Settled(j) /\ IsTerminal(polls[j].statusAtCall))
         => LET v == polls[j].videoId
            IN  /\ SameOutcome(Jobs[v], videoStatuses'.jobs[v])
                /\ Jobs[v].error = videoStatuses'.jobs[v].error]_vars

(* what the claim calls a quota error: the message contains '429' or       *)
(* 'RESOURCE_EXHAUSTED'                                                    *)
HasQuotaMarker(m) ==
  \/ \E n \in 1..(Len(m) - 2) : m[n] = "4" /\ m[n + 1] = "2" /\ m[n + 2] = "9"
  \/ \E n \in 1..Len(m) : m[n] = "RESOURCE_EXHAUSTED"

(* C6: a submission that throws message m yields a slot with status        *)
(* 'error', videoId null, the segment's own estimatedTime, quotaExceeded   *)
(* true exactly when m contains '429' or 'RESOURCE_EXHAUSTED', and as      *)
(* error text the fixed quota message in that case and m otherwise.        *)
C6_ErrorSlotContents ==
  [][\A m \in ErrorMessages :
       SubmitFail(m) =>
         LET k == disp.i
             slot == disp'.videos[k]
         IN  /\ Len(disp'.videos) = k
             /\ slot.status = ErrorStatus
             /\ slot.videoId = Null
             /\ slot.estimatedTime =
                  estimateVideoGenerationTime(disp.segments[k], disp.quality)
             /\ slot.quotaExceeded = HasQuotaMarker(m)
             /\ slot.error = IF HasQuotaMarker(m) THEN QuotaMessage ELSE m]_vars

C6_Witness ==
  /\ Len(disp.videos) = 2
  /\ SlotFailed(1) /\ disp.videos[1].quotaExceeded
  /\ disp.videos[1].error = QuotaMessage
  /\ SlotFailed(2) /\ ~disp.videos[2].quotaExceeded
  /\ disp.videos[2].error # QuotaMessage
  /\ disp.videos[1].estimatedTime # disp.videos[2].estimatedTime

(* C7: the step that records an error slot leaves the registry and the     *)
(* timers exactly as they were.                                            *)
C7_FailedSubmissionLeavesRegistry ==
  [][(/\ Len(disp'.videos) = Len(disp.videos) + 1
      /\ disp'.videos[Len(disp'.videos)].status = ErrorStatus)
       => (videoStatuses' = videoStatuses /\ timers' = timers)]_vars

C7_Witness ==
  /\ SlotCreated(1)
  /\ SlotFailed(2)
  /\ Registered = {disp.videos[1].videoId}
  /\ DOMAIN timers = Registered

(* C8: getVideoStatus for an id that is not in the registry returns status *)
(* 'not_found' with progress 0, issues no upstream request and leaves the  *)
(* registry unchanged.                                                     *)
C8_UnknownIdNotFound ==
  [][\A v \in QueryIds :
       (v \notin Registered /\ CallMade(v))
         => /\ ret'.status = NotFound
            /\ ret'.progress = 0
            /\ requests' = requests
            /\ videoStatuses' = videoStatuses]_vars

(* C9: a getVideoStatus call for a registered job whose stored operation   *)
(* is done issues no upstream request and changes no registry entry; and   *)
(* any getVideoStatus call, from its start to the settling of its poll,    *)
(* changes at most the entry of the job it asks about.                     *)
C9_StatusQueryFrame ==
  [][\A v \in JobIds :
       /\ (HasEntry(v) /\ Jobs[v].operation.done /\ CallMade(v))
            => (requests' = requests /\ polls' = polls /\ videoStatuses' = videoStatuses)
       /\ (CallMade(v) \/ \E j \in 1..Len(polls) : Settled(j) /\ polls[j].videoId = v)
            => /\ videoStatuses'.exists = videoStatuses.exists
               /\ DOMAIN videoStatuses'.jobs = DOMAIN Jobs
               /\ \A w \in DOMAIN Jobs \ {v} : videoStatuses'.jobs[w] = Jobs[w]]_vars

C9_Witness ==
  /\ ret # NoReturn
  /\ HasEntry(ret.videoId)
  /\ Jobs[ret.videoId].operation.done
  /\ requests = 0
  /\ Cardinality(Registered) = 2

(* the claim's formula for the progress of a job still being generated *)
ClaimedProgress(entry) ==
  LET elapsed100 == 100 * (now' - entry.startTime)
      total == entry.estimatedCompletion - entry.startTime
      rounded == CHOOSE n \in 0..((elapsed100 \div total) + 1) :
                   (2 * n - 1) * total <= 2 * elapsed100 /\ 2 * elapsed100 < (2 * n + 1) * total
  IN  IF rounded < 95 THEN rounded ELSE 95

(* C10: a poll that reports done=false sets the job's progress to          *)
(* min(95, round(100 * elapsed / (estimatedCompletion - startTime))), a    *)
(* value from 0 to 95, and does not change its status.                     *)
C10_NotDoneProgress ==
  [][\A j \in 1..MaxPolls, m \in PollErrors :
       PollSettled(j, "notDone", m) =>
         LET v == polls[j].videoId
         IN  /\ videoStatuses'.jobs[v].progress = ClaimedProgress(Jobs[v])
             /\ videoStatuses'.jobs[v].progress \in 0..95
             /\ videoStatuses'.jobs[v].status = Jobs[v].status]_vars

(* C11: a poll that reports done=true with a generated video makes the job *)
(* 'completed' with progress 100 and the video's URI as downloadUrl; a     *)
(* poll that reports done=true without a generated video makes it 'error'  *)
(* with the error 'No video generated in response' and leaves downloadUrl  *)
(* as it was.                                                              *)
C11_DonePollOutcome ==
  [][\A j \in 1..MaxPolls, m \in PollErrors :
       /\ PollSettled(j, "doneVideo", m) =>
            LET after == videoStatuses'.jobs[polls[j].videoId]
            IN  /\ after.status = Completed
                /\ after.progress = 100
                /\ after.downloadUrl = UpstreamUri
                /\ ret'.status = Completed
       /\ PollSettled(j, "doneNoVideo", m) =>
            LET before == Jobs[polls[j].videoId]
                after == videoStatuses'.jobs[polls[j].videoId]
            IN  /\ after.status = ErrorStatus
                /\ after.error = NoVideoError
                /\ after.downloadUrl = before.downloadUrl]_vars

C11_Witness ==
  /\ ret # NoReturn
  /\ requests = 1 /\ polls = <<>>
  /\ ret.status = Completed /\ ret.progress = 100 /\ ret.downloadUrl = UpstreamUri
  /\ HasEntry(ret.videoId) /\ Jobs[ret.videoId].operation.done

(* C12: when the poll request fails, getVideoStatus records status 'error' *)
(* with the failure's own message, returns that status, and sends no       *)
(* further upstream request.                                               *)
C12_FailedPollIsError ==
  [][\A j \in 1..MaxPolls, m \in PollErrors :
       PollSettled(j, "failed", m) =>
         LET after == videoStatuses'.jobs[polls[j].videoId]
         IN  /\ after.status = ErrorStatus
             /\ after.error = m
             /\ ret' # NoReturn
             /\ ret'.status = ErrorStatus /\ ret'.error = m
             /\ requests' = requests
             /\ Len(polls') = Len(polls) - 1]_vars

C12_Witness ==
  /\ ret # NoReturn
  /\ requests = 1 /\ polls = <<>>
  /\ ret.status = ErrorStatus /\ ret.error \in PollErrors
  /\ HasEntry(ret.videoId) /\ ~Jobs[ret.videoId].operation.done

(* C13: downloadVideo for a job whose status is 'completed' does not throw *)
(* and returns a payload of at least one byte; when the upstream download  *)
(* fails or the job has no download URL, the payload is the placeholder.   *)
C13_CompletedAlwaysYieldsBytes ==
  [][\A v \in QueryIds, o \in DownloadOutcomes, f \in FileLengths :
       (downloadVideo(v, o, f) /\ HasEntry(v) /\ Jobs[v].status = Completed)
         => /\ download'.outcome = "returned"
            /\ download'.length > 0
            /\ (o = "rejected" \/ Jobs[v].downloadUrl = Undefined)
                 => /\ download'.placeholder
                    /\ download'.length = Mp4HeaderLength + PlaceholderBodyLength]_vars

C13_Witness ==
  /\ download.outcome = "returned"
  /\ download.placeholder /\ download.fetched
  /\ HasEntry(download.videoId)
  /\ Jobs[download.videoId].status = Completed

(* a completed job without a download URL was handed the placeholder *)
PlaceholderForMissingUrl ==
  /\ download.outcome = "returned"
  /\ download.placeholder /\ ~download.fetched
  /\ Jobs[download.videoId].downloadUrl = Undefined

(* C14: downloadVideo throws for an id that is not in the registry and for *)
(* a registered job whose status is not 'completed'; it then sends no      *)
(* upstream request, hands out no bytes and leaves the registry unchanged. *)
C14_NotReadyThrows ==
  [][\A v \in QueryIds, o \in DownloadOutcomes, f \in FileLengths :
       (downloadVideo(v, o, f) /\ (HasEntry(v) => Jobs[v].status # Completed))
         => /\ download'.outcome = "threw"
            /\ ~download'.fetched
            /\ download'.length = 0 /\ ~download'.placeholder
            /\ requests' = requests /\ polls' = polls
            /\ videoStatuses' = videoStatuses]_vars

C14_Witness ==
  /\ download.outcome = "threw"
  /\ HasEntry(download.videoId)
  /\ Jobs[download.videoId].status = ErrorStatus
  /\ Jobs[download.videoId].downloadUrl # Undefined

(* the segments splitScript returned, and the words of the script in one *)
SplitReturned == split.pc = "returned"
Segment(k) == split.finalSegments[k]
SegmentWords(k) == WordsOf(split.script, Segment(k).ids)
SegmentCount == Len(split.finalSegments)
Blank(script) == Pieces(script) = <<>>

RECURSIVE Flatten(_)
Flatten(texts) == IF texts = <<>> THEN <<>> ELSE Head(texts).ids \o Flatten(Tail(texts))

(* C15: every segment splitScript returns, other than the last, has at     *)
(* least 15 words.                                                         *)
C15_WordFloor ==
  SplitReturned => \A k \in 1..(SegmentCount - 1) : SegmentWords(k) >= 15

C15_Witness ==
  /\ SplitReturned
  /\ SegmentCount = 3
  /\ SegmentWords(1) = 15 /\ SegmentWords(2) > 22
  /\ SegmentWords(3) < 15

(* C16: no segment splitScript returns has more than 30 words.             *)
C16_WordCeiling ==
  SplitReturned => \A k \in 1..SegmentCount : SegmentWords(k) <= 30

(* C17: the returned segments, joined in order, hold every piece of the    *)
(* script exactly once and in the script's order, the words after the last *)
(* terminator included.                                                    *)
C17_Coverage ==
  SplitReturned =>
    Flatten(split.finalSegments) = [k \in 1..Len(Pieces(split.script)) |-> k]

(* C18: the last segment has fewer than 15 words only when it is the only  *)
(* segment or when joining it to the segment before it would give more     *)
(* than 30 words.                                                          *)
C18_ShortTailOnlyIfUnmergeable ==
  (SplitReturned /\ SegmentCount >= 1 /\ SegmentWords(SegmentCount) < 15)
    => \/ SegmentCount = 1
       \/ SegmentWords(SegmentCount - 1) + SegmentWords(SegmentCount) > 30

(* C19: a script of exactly five sentences, 42 words in all and none of    *)
(* more than 22 words, is returned as exactly 2 segments.                  *)
C19_FiveSentencesTwoSegments ==
  (/\ SplitReturned
   /\ Len(split.script.sentences) = 5 /\ split.script.tail = 0
   /\ WordsOf(split.script, <<1, 2, 3, 4, 5>>) = 42
   /\ \A k \in 1..5 : split.script.sentences[k] <= 22)
    => SegmentCount = 2

(* every script that is not blank comes back as non-empty segments *)
NonBlankSplitsWell ==
  (SplitReturned /\ ~Blank(split.script))
    => SegmentCount >= 1 /\ \A k \in 1..SegmentCount : Segment(k).ids # <<>>

(* C20: splitScript returns no segment list for an empty or whitespace-    *)
(* only script (it fails instead), and for every other script it returns   *)
(* a non-empty list of non-empty segments.                                 *)
C20_FailsOnlyOnBlank ==
  SplitReturned =>
    /\ ~Blank(split.script)
    /\ SegmentCount >= 1
    /\ \A k \in 1..SegmentCount : Segment(k).ids # <<>>

(* the claim's value of the estimate, times 100: 120 x q x c in tenths *)
ClaimedEstimate100(segment, quality) ==
  120 * (IF quality = "high" THEN 15 ELSE 10)
      * (IF segment.dialogueLength > 100 THEN 12 ELSE 10)

(* C21: the estimate of a segment is 120 x q x c seconds, q = 1.5 for      *)
(* quality 'high' and 1.0 otherwise, c = 1.2 for a dialogue of more than   *)
(* 100 characters and 1.0 otherwise; it is one of 120, 144, 180, 216.      *)
C21_EstimateFormula ==
  \A k \in 1..Len(disp.videos) :
    /\ 100 * disp.videos[k].estimatedTime =
         ClaimedEstimate100(disp.segments[k], disp.quality)
    /\ disp.videos[k].estimatedTime \in {120, 144, 180, 216}

C21_Witness ==
  /\ Returned
  /\ Len(disp.videos) = 2
  /\ disp.quality = "high"
  /\ disp.segments[1].dialogueLength = 101 /\ disp.videos[1].estimatedTime = 216
  /\ disp.segments[2].dialogueLength = 0 /\ disp.videos[2].estimatedTime = 180

RECURSIVE CreatedEstimates(_)
CreatedEstimates(k) ==
  IF k = 0 THEN 0
  ELSE CreatedEstimates(k - 1)
         + (IF SlotCreated(k) THEN disp.videos[k].estimatedTime ELSE 0)

(* C22: the estimatedTime total of the result is the sum of the            *)
(* estimatedTime of the slots whose submission succeeded; failed slots add *)
(* nothing, in either mode.                                                *)
C22_TotalIsSumOfCreated ==
  Returned => Result.estimatedTime = CreatedEstimates(Len(Result.videos))

C22_Witness ==
  /\ Returned
  /\ disp.sequential
  /\ Len(disp.videos) = 2
  /\ SlotCreated(1) /\ SlotFailed(2)
  /\ disp.videos[2].estimatedTime > 0
  /\ Result.estimatedTime = disp.videos[1].estimatedTime

(* C23: in sequential mode the wait for job i returns, and segment i + 1   *)
(* is submitted, only once the upstream operation of job i has reported    *)
(* done (a stored operation that is done stays done).                      *)
C23_WaitNeedsUpstreamDone ==
  \A n \in 2..Len(calls) :
    (disp.sequential /\ SlotCreated(calls[n] - 1))
      => Jobs[disp.videos[calls[n] - 1].videoId].operation.done

C25_EntryCreation ==
  [][(Registered' # Registered) =>
       \E v \in JobIds :
         LET entry == videoStatuses'.jobs[v]
             slot == disp'.videos[Len(disp'.videos)]
         IN  /\ v \notin Registered
             /\ DOMAIN videoStatuses'.jobs = Registered \cup {v}
             /\ Len(disp'.videos) = Len(disp.videos) + 1
             /\ slot.videoId = v /\ slot.status = Processing /\ slot.progress = 0
             /\ entry.status = Processing /\ entry.progress = 0
             /\ entry.startTime = now
             /\ entry.estimatedCompletion = entry.startTime + 1000 * slot.estimatedTime
             /\ entry.estimatedCompletion > entry.startTime
             /\ v \notin DOMAIN timers /\ v \in DOMAIN timers'
             /\ timers'[v].start = now /\ timers'[v].next = 1]_vars

C25_Witness ==
  /\ now > 0
  /\ Len(disp.videos) = 2
  /\ SlotCreated(2)
  /\ LET v == disp.videos[2].videoId
     IN  /\ HasEntry(v)
         /\ Jobs[v].startTime = now /\ Jobs[v].status = Processing
         /\ Jobs[v].estimatedCompletion = now + 120000
         /\ timers[v].next = 1

(* the progress values of the claim, in its order *)
ProgressOrder == <<10, 25, 50, 75, 90, 100>>

(* C26: with no getVideoStatus call, the timeline sets a registered job's  *)
(* progress to 10, 25, 50, 75, 90, 100 in that order, each once, and the   *)
(* job eventually is 'completed' with progress 100 and a download URL.     *)
C26_TimelineInOrder ==
  /\ [][\A v \in JobIds :
          (TimerRan(v) /\ HasEntry(v))
            => /\ timers[v].next \in 1..6
               /\ videoStatuses'.jobs[v].progress = ProgressOrder[timers[v].next]
               /\ Jobs[v].progress =
                    (IF timers[v].next = 1 THEN 0 ELSE ProgressOrder[timers[v].next - 1])]_vars
  /\ [](\A v \in JobIds :
          (HasEntry(v) /\ Jobs[v].progress = 100)
            => Jobs[v].status = Completed /\ Jobs[v].downloadUrl # Undefined)
  /\ \A v \in JobIds :
       HasEntry(v) ~> (/\ HasEntry(v)
                       /\ Jobs[v].status = Completed
                       /\ Jobs[v].progress = 100
                       /\ Jobs[v].downloadUrl # Undefined)

C26_Witness ==
  /\ Cardinality(Registered) = 2
  /\ ~disp.sequential
  /\ \A v \in Registered :
       /\ Jobs[v].status = Completed /\ Jobs[v].progress = 100
       /\ Jobs[v].downloadUrl = SimulatedUrl
       /\ timers[v].next = 7
  /\ now = 30000

(* the raw segments as the first pass leaves them, before any repair *)
FirstPassDone ==
  split.pc = "repairing" /\ split.i = 1 /\ split.finalSegments = <<>>
RawWords(k) == WordsOf(split.script, split.rawSegments[k].ids)
RawWordsBeforeLast(k) ==
  LET ids == split.rawSegments[k].ids
  IN  WordsOf(split.script, SubSeq(ids, 1, Len(ids) - 1))

(* C27: the raw segments take the sentences in order, each being the       *)
(* shortest run of sentences from the first unused one that has at least   *)
(* 15 words (whatever its length beyond 22), or, for the last, all the     *)
(* sentences left when they have fewer than 15 words.                      *)
C27_GreedyAccumulation ==
  FirstPassDone =>
    /\ Flatten(split.rawSegments) = Flatten(split.sentences)
    /\ \A k \in 1..Len(split.rawSegments) :
         \/ RawWords(k) >= 15 /\ RawWordsBeforeLast(k) < 15
         \/ RawWords(k) < 15 /\ k = Len(split.rawSegments)

C27_Witness ==
  /\ FirstPassDone
  /\ Len(split.rawSegments) = 3
  /\ Len(split.rawSegments[1].ids) = 2 /\ RawWords(1) > 22
  /\ RawWords(2) = 15
  /\ Len(split.rawSegments[3].ids) = 2 /\ RawWords(3) < 15

(* the slots of both invocations that report a created job *)
CreatedSlots ==
  { disp.videos[k] : k \in { j \in 1..Len(disp.videos) : SlotCreated(j) } }
    \cup { other.videos[k] :
             k \in { j \in 1..Len(other.videos) : other.videos[j].status = Processing } }
SuccessfulSubmissions ==
  Cardinality({ k \in 1..Len(disp.videos) : SlotCreated(k) })
    + Cardinality({ k \in 1..Len(other.videos) : other.videos[k].status = Processing })

(* C28: with one invocation or two at the same time, the registry holds    *)
(* as many entries as submissions succeeded, every created job still has   *)
(* the entry its own submission wrote (its segment number, its operation's *)
(* id), and every entry has one timeline, started when it was written.     *)
C28_OwnRegistryKey ==
  /\ Cardinality(Registered) = SuccessfulSubmissions
  /\ DOMAIN timers = Registered
  /\ \A slot \in CreatedSlots :
       /\ HasEntry(slot.videoId)
       /\ Jobs[slot.videoId].id = slot.videoId
       /\ Jobs[slot.videoId].segmentIndex = slot.segmentIndex
       /\ Jobs[slot.videoId].sequential = slot.sequential
       /\ timers[slot.videoId].start = Jobs[slot.videoId].startTime
       /\ timers[slot.videoId].sequential = slot.sequential

C28_Witness ==
  /\ disp.pc = "returned" /\ other.pc = "returned"
  /\ Len(disp.videos) = 2 /\ Len(other.videos) = 2
  /\ SuccessfulSubmissions = 4
  /\ disp.videos[1].videoId = OperationNames[1]
  /\ other.videos[1].videoId = OperationNames[2]
  /\ disp.videos[2].videoId = OperationNames[3]
  /\ other.videos[2].videoId = OperationNames[4]

LifecycleStates == {Processing, Completed, ErrorStatus}

(* C29: the status stored for a job, and the status getVideoStatus returns *)
(* for a registered id, is always processing, completed or error, and      *)
(* not_found is returned only for an id that is not registered.            *)
C29_StatusIsLifecycleState ==
  /\ \A v \in Registered : Jobs[v].status \in LifecycleStates
  /\ (ret # NoReturn /\ HasEntry(ret.videoId)) => ret.status \in LifecycleStates
  /\ (ret # NoReturn /\ ret.status = NotFound) => ~HasEntry(ret.videoId)

(* whether anything left in the program can still end the wait on job v:   *)
(* the wait ends when it finds the job completed or finds no entry; a      *)
(* status that is not 'completed' changes only by a timer of the job still *)
(* to run, by a poll request in flight, or by a later getVideoStatus call, *)
(* which polls only while the stored operation is not done                 *)
PollInFlight(v) == \E j \in 1..Len(polls) : polls[j].videoId = v
WaitCanEnd(v) ==
  \/ ~LookupTruthy(v)
  \/ InheritedKey(v)
  \/ Jobs[v].status = Completed
  \/ TimerPending(v)
  \/ PollInFlight(v)
  \/ LiveOperation(Jobs[v])

(* C30: a sequential dispatch always returns, whatever getVideoStatus      *)
(* calls and poll outcomes are interleaved with it; so while it waits for  *)
(* a job, something is always left that can end the wait.                  *)
C30_SequentialTerminates ==
  (disp.sequential /\ disp.pc = "waiting") => WaitCanEnd(disp.waitId)

(* the jobs the dispatch has created so far *)
BatchJobs ==
  { disp.videos[k].videoId : k \in { j \in 1..Len(disp.videos) : SlotCreated(j) } }

(* C31: while and after a sequential dispatch runs, at most one job of its *)
(* batch has a status other than completed or error in the registry.       *)
C31_OneLiveJobInSequence ==
  disp.sequential =>
    Cardinality({ v \in BatchJobs : HasEntry(v) /\ ~IsTerminal(Jobs[v].status) }) <= 1

(* C32: no step of the program, timer callback or settled poll, writes a   *)
(* progress lower than the one the job had before the step.                *)
C32_ProgressNeverDecreases ==
  [][\A v \in Registered :
       videoStatuses'.jobs[v].progress >= Jobs[v].progress]_vars

(* C33: in every state a job whose status is 'completed' has progress 100  *)
(* and a download URL.                                                     *)
C33_CompletedIsWhole ==
  \A v \in Registered :
    Jobs[v].status = Completed
      => Jobs[v].progress = 100 /\ Jobs[v].downloadUrl # Undefined

(* C34: the record getVideoStatus returns carries an error message only    *)
(* when its status is 'error' or 'not_found'; a job reported as processing *)
(* or completed carries none.                                              *)
C34_ErrorOnlyWithErrorStatus ==
  (ret # NoReturn /\ ret.error # Undefined) => ret.status \in {ErrorStatus, NotFound}

(* the poll requests in flight for job v *)
PollsInFlight(v) == Cardinality({ j \in 1..Len(polls) : polls[j].videoId = v })
RequestSent(v) ==
  /\ Len(polls') = Len(polls) + 1
  /\ polls'[Len(polls')].videoId = v

(* C35: with one poll of a job in flight at a time, the poll that is       *)
(* answered done=true stores the done operation, and from then on the      *)
(* stored operation stays done, no request for the job is sent, and every  *)
(* getVideoStatus call for it returns the registry entry as it is.         *)
C35_DonePollIsLastRequest ==
  /\ [][\A j \in 1..MaxRequests, m \in PollErrors, outcome \in {"doneVideo", "doneNoVideo"} :
          (PollSettled(j, outcome, m) /\ PollsInFlight(polls[j].videoId) = 1)
            => videoStatuses'.jobs[polls[j].videoId].operation.done]_vars
  /\ [][\A v \in Registered :
          (Jobs[v].operation.done /\ PollsInFlight(v) = 0)
            => /\ videoStatuses'.jobs[v].operation.done
               /\ ~RequestSent(v)
               /\ CallMade(v) => /\ ret' = StatusOf(v, Jobs[v])
                                 /\ videoStatuses' = videoStatuses
                                 /\ requests' = requests]_vars

(* a job whose first poll was answered done=true, asked about again later, *)
(* after a timer of its timeline has run, with request budget left         *)
C35_Witness ==
  /\ ret # NoReturn /\ HasEntry(ret.videoId)
  /\ Jobs[ret.videoId].operation.done
  /\ Jobs[ret.videoId].error = NoVideoError
  /\ ret.status = Completed
  /\ requests = 1 /\ polls = <<>>
  /\ now > Jobs[ret.videoId].startTime

(* the state a poll answered done=true with a generated video leaves *)
CompletedByPoll(entry) ==
  /\ entry.status = Completed
  /\ entry.progress = 100
  /\ entry.downloadUrl = UpstreamUri
  /\ entry.operation.done

(* C36: of two polls of a job in flight together, one answered done=true   *)
(* with a video and one answered done=false, the not-done answer arriving  *)
(* second leaves the job completed, at progress 100, with a done           *)
(* operation, as it would be had the answers arrived in the other order.   *)
C36_LateNotDoneUndoesNothing ==
  [][\A j \in 1..MaxRequests, m \in PollErrors :
       (PollSettled(j, "notDone", m) /\ CompletedByPoll(Jobs[polls[j].videoId]))
         => CompletedByPoll(videoStatuses'.jobs[polls[j].videoId])]_vars

(* C37: every round of the repair pass keeps the raw segment it looks at   *)
(* (it neither borrows from the next segment nor merges with it, and       *)
(* leaves the raw segments as they are), so splitScript returns exactly    *)
(* the raw segments of the greedy pass.                                    *)
C37_RepairChangesNothing ==
  /\ [][split.pc = "repairing" =>
          /\ split'.rawSegments = split.rawSegments
          /\ split'.finalSegments = Append(split.finalSegments, split.rawSegments[split.i])
          /\ split'.i = split.i + 1]_vars
  /\ [](SplitReturned => split.finalSegments = split.rawSegments)

C37_Witness ==
  /\ SplitReturned
  /\ SegmentCount = 3
  /\ split.finalSegments = split.rawSegments
  /\ SegmentWords(1) > MergeLimit
  /\ SegmentWords(2) = minWordsFor6Seconds
  /\ SegmentWords(3) = 1

====
